---- MODULE Spec2Model ----
(***************************************************************************)
(* Model of playground/interpreter.js: the Environment scope chain, the    *)
(* expression evaluator restricted to numbers, booleans and names, and     *)
(* interpretBlock as a machine over an explicit stack of its invocations.  *)
(***************************************************************************)
EXTENDS Integers, Sequences, FiniteSets, TLC

VARIABLES prog, stack, envs, functions, pending, status, nexec, said, iters

vars == <<prog, stack, envs, functions, pending, status, nexec, said, iters>>

(* ---- bounds of the model ---- *)
MaxWhileIters == 3
MaxRepeat == 3

(* ======================= values and expressions ======================== *)

NumV(n) == [t |-> "num", n |-> n]
BoolV(b) == [t |-> "bool", n |-> IF b THEN 1 ELSE 0]

\* a built-in function, what a name inherited from Object.prototype reads as
NativeV == [t |-> "native", n |-> 0]

\* JS truthiness of a number or boolean
Truthy(v) == v.n # 0

\* String(val) of a number or boolean
StringOf(v) == IF v.t = "bool" THEN (IF v.n = 1 THEN "true" ELSE "false") ELSE ToString(v.n)

\* operands and expressions of the source text: NAME, NUMBER, or one binary operator
Num(n) == [k |-> "num", n |-> n, v |-> ""]
Var(v) == [k |-> "var", n |-> 0, v |-> v]
Val(a) == [op |-> "val", l |-> a, r |-> a]
Bin(op, l, r) == [op |-> op, l |-> l, r |-> r]

\* the source text of an operand and of an expression
OperandText(a) == IF a.k = "num" THEN ToString(a.n) ELSE a.v

ExprText(expr) ==
    IF expr.op = "val" THEN OperandText(expr.l)
    ELSE OperandText(expr.l)
         \o (CASE expr.op = "add" -> " + " [] expr.op = "sub" -> " - " [] expr.op = "gt" -> " > "
               [] expr.op = "lt" -> " < " [] expr.op = "eq" -> " == ")
         \o OperandText(expr.r)

(* ============================ Environment ============================== *)

EmptyMap == [n \in {} |-> NumV(0)]

\* vars and consts are object literals: the names of Object.prototype that the
\* programs use are found in each of them by the in operator
ObjectPrototype == {"toString"}

\* name in map
In(name, map) == name \in DOMAIN map \/ name \in ObjectPrototype

\* map[name]
Lookup(map, name) == IF name \in DOMAIN map THEN map[name] ELSE NativeV

NewEnvironment(parent) == [vars |-> EmptyMap, consts |-> EmptyMap, parent |-> parent]

GlobalEnv == 1

Found(v) == [ok |-> TRUE, val |-> v, msg |-> ""]
Failed(m) == [ok |-> FALSE, val |-> NumV(0), msg |-> m]

RECURSIVE EnvGet(_, _, _)
EnvGet(es, e, name) ==
    IF In(name, es[e].vars) THEN Found(Lookup(es[e].vars, name))
    ELSE IF In(name, es[e].consts) THEN Found(Lookup(es[e].consts, name))
    ELSE IF es[e].parent # 0 THEN EnvGet(es, es[e].parent, name)
    ELSE Failed("Variable \"" \o name \o "\" not found")

\* Environment.set with a slip: the scope holding the name as a constant is a target too
RECURSIVE SetTargetDeclared(_, _, _)
SetTargetDeclared(es, e, name) ==
    IF In(name, es[e].vars) \/ In(name, es[e].consts) THEN e
    ELSE IF es[e].parent # 0 THEN SetTargetDeclared(es, es[e].parent, name)
    ELSE 0

\* the environment whose vars Environment.set writes, 0 when it throws
RECURSIVE SetTarget(_, _, _)
SetTarget(es, e, name) ==
    IF In(name, es[e].vars) THEN e
    ELSE IF es[e].parent # 0 THEN SetTarget(es, es[e].parent, name)
    ELSE 0

EnvSet(es, e, name, value) ==
    LET o == SetTarget(es, e, name)
    IN  [es EXCEPT ![o].vars = (name :> value) @@ @]

DeclareVar(es, e, name, value) == [es EXCEPT ![e].vars = (name :> value) @@ @]

DeclareConst(es, e, name, value) == [es EXCEPT ![e].consts = (name :> value) @@ @]

\* isDeclared with a slip: only the variables of the scope are looked at
IsDeclaredVarsOnly(es, e, name) == In(name, es[e].vars)

\* isDeclared with a slip: only the constants of the scope are looked at
IsDeclaredConstsOnly(es, e, name) == In(name, es[e].consts)

IsDeclared(es, e, name) == In(name, es[e].vars) \/ In(name, es[e].consts)

(* ========================== evalExpression ============================= *)

\* the replace callback: a name token is looked up, a number token is left alone
Resolve(es, e, a) ==
    IF a.k = "num" THEN Found(NumV(a.n))
    ELSE LET r == EnvGet(es, e, a.v)
         IN  IF r.ok THEN r
             ELSE Failed("Variable or index error: " \o a.v \o " - " \o r.msg)

Apply(op, x, y) ==
    CASE op = "add" -> NumV(x.n + y.n)
      [] op = "sub" -> NumV(x.n - y.n)
      [] op = "gt"  -> BoolV(x.n > y.n)
      [] op = "lt"  -> BoolV(x.n < y.n)
      [] op = "eq"  -> BoolV(x.n = y.n)

\* the names are replaced by their values, then the text is evaluated: the text
\* of a built-in function does not evaluate
EvalExpression(es, e, expr) ==
    LET l == Resolve(es, e, expr.l)
        r == Resolve(es, e, expr.r)
    IN  IF ~l.ok THEN l
        ELSE IF ~r.ok THEN r
        ELSE IF l.val = NativeV \/ r.val = NativeV
             THEN Failed("Expression evaluation failed: " \o ExprText(expr))
        ELSE IF expr.op = "val" THEN l
        ELSE Found(Apply(expr.op, l.val, r.val))

(* ============================ source lines ============================= *)

\* one source line: ind = number of leading 4-space units, kind = the first
\* statement pattern of interpretBlock that the trimmed line matches
Stmt(ind, kind) ==
    [id |-> 0, ind |-> ind, kind |-> kind, name |-> "", expr |-> Val(Num(0)),
     count |-> 0, params |-> <<>>, args |-> <<>>, text |-> "", quoted |-> FALSE]

Blank == Stmt(0, "blank")
Let(ind, n, e) == [Stmt(ind, "let") EXCEPT !.name = n, !.expr = e]
SetC(ind, n, e) == [Stmt(ind, "set") EXCEPT !.name = n, !.expr = e]
Assign(ind, n, e) == [Stmt(ind, "assign") EXCEPT !.name = n, !.expr = e]
SayLit(ind, s) == [Stmt(ind, "say") EXCEPT !.text = s, !.quoted = TRUE]
Say(ind, e) == [Stmt(ind, "say") EXCEPT !.expr = e]
If(ind, e) == [Stmt(ind, "if") EXCEPT !.expr = e]
Else(ind) == Stmt(ind, "else")
Repeat(ind, n) == [Stmt(ind, "repeat") EXCEPT !.count = n]
While(ind, e) == [Stmt(ind, "while") EXCEPT !.expr = e]
Function(ind, n, ps) == [Stmt(ind, "function") EXCEPT !.name = n, !.params = ps]
Return(ind, e) == [Stmt(ind, "return") EXCEPT !.expr = e]
Call(ind, n, as) == [Stmt(ind, "call") EXCEPT !.name = n, !.args = as]
Bad(ind, s) == [Stmt(ind, "bad") EXCEPT !.text = s]

\* lines[k].startsWith('    ')
StartsWithIndent(line) == line.ind >= 1

\* block extraction with a slip: the scan does not test the prefix and takes
\* every remaining line
BlockEndOfRest(lines, blockStart) == Len(lines)

\* let blockEnd = blockStart; while (blockEnd < lines.length && lines[blockEnd].startsWith('    ')) blockEnd++
BlockEndOf(lines, blockStart) ==
    CHOOSE j \in blockStart..Len(lines) :
        /\ \A k \in blockStart..(j - 1) : StartsWithIndent(lines[k + 1])
        /\ (j = Len(lines) \/ ~StartsWithIndent(lines[j + 1]))

(* ===================== interpretBlock invocations ====================== *)

\* one invocation of interpretBlock; pc names the handler it is suspended in
\* while a nested invocation runs ("run" = in its own dispatch loop)
Frame(lines, start, end, env) ==
    [lines |-> lines, i |-> start, end |-> end, env |-> env, output |-> <<>>,
     pc |-> "run", be |-> 0, c |-> 0]

Top == stack[Len(stack)]
Cur == Top.lines[Top.i + 1]
SetTop(f) == [stack EXCEPT ![Len(stack)] = f]

NoPending == [k |-> "none", t |-> "", out |-> <<>>, val |-> NumV(0), msg |-> ""]
ResultArray(out) == [NoPending EXCEPT !.k = "result", !.t = "array", !.out = out]
ResultUndefined == [NoPending EXCEPT !.k = "result", !.t = "undefined"]
ResultValue(v) == [NoPending EXCEPT !.k = "result", !.t = "value", !.val = v]
ThrowError(m) == [NoPending EXCEPT !.k = "throw", !.t = "error", !.msg = m]
ThrowTypeError(m) == [NoPending EXCEPT !.k = "throw", !.t = "typeerror", !.msg = m]
ThrowReturn(v) == [NoPending EXCEPT !.k = "throw", !.t = "return", !.val = v]

Running == status = "running" /\ pending.k = "none" /\ stack # <<>>
Dispatch(kind) == Running /\ Top.pc = "run" /\ Top.i < Top.end /\ Cur.kind = kind

Count == nexec' = [nexec EXCEPT ![Cur.id] = @ + 1]

\* the statement throws: the invocation stays on the stack until the unwind pops it
Throws(p) == pending' = p /\ UNCHANGED <<stack, envs, functions, said, iters>>

\* interpretBlock(lines, blockStart, blockEnd, new Environment(parentEnv)) called from frame f
Enter(f, lines, start, end, parentEnv) ==
    /\ envs' = Append(envs, NewEnvironment(parentEnv))
    /\ stack' = Append(SetTop(f), Frame(lines, start, end, Len(envs) + 1))

\* the invocation on top is left; its environment is dropped, the global one stays
Leave ==
    /\ stack' = SubSeq(stack, 1, Len(stack) - 1)
    /\ envs' = IF Len(envs) > 1 THEN SubSeq(envs, 1, Len(envs) - 1) ELSE envs

(* ======================== statement handlers =========================== *)

\* the blank-line handler with a slip: i++ is missing
SkipBlankNoAdvance ==
    /\ Dispatch("blank")
    /\ Count
    /\ UNCHANGED <<prog, stack, envs, functions, pending, status, said, iters>>

\* if (line === '' || line.startsWith('#')) { i++; continue; }
SkipBlank ==
    /\ Dispatch("blank")
    /\ stack' = SetTop([Top EXCEPT !.i = @ + 1])
    /\ Count
    /\ UNCHANGED <<prog, envs, functions, pending, status, said, iters>>

\* let NAME = EXPR
LetStmt ==
    /\ Dispatch("let")
    /\ Count
    /\ LET r == EvalExpression(envs, Top.env, Cur.expr)
       IN  IF ~r.ok THEN Throws(ThrowError(r.msg))
           ELSE IF IsDeclared(envs, Top.env, Cur.name)
                THEN Throws(ThrowError("Variable \"" \o Cur.name \o "\" already declared"))
           ELSE /\ envs' = DeclareVar(envs, Top.env, Cur.name, r.val)
                /\ stack' = SetTop([Top EXCEPT !.i = @ + 1])
                /\ UNCHANGED <<functions, pending, said, iters>>
    /\ UNCHANGED <<prog, status>>

\* set NAME = EXPR
SetStmt ==
    /\ Dispatch("set")
    /\ Count
    /\ LET r == EvalExpression(envs, Top.env, Cur.expr)
       IN  IF ~r.ok THEN Throws(ThrowError(r.msg))
           ELSE IF IsDeclared(envs, Top.env, Cur.name)
                THEN Throws(ThrowError("Variable \"" \o Cur.name \o "\" already declared"))
           ELSE /\ envs' = DeclareConst(envs, Top.env, Cur.name, r.val)
                /\ stack' = SetTop([Top EXCEPT !.i = @ + 1])
                /\ UNCHANGED <<functions, pending, said, iters>>
    /\ UNCHANGED <<prog, status>>

\* NAME = EXPR
AssignStmt ==
    /\ Dispatch("assign")
    /\ Count
    /\ IF ~IsDeclared(envs, Top.env, Cur.name)
       THEN Throws(ThrowError("Variable \"" \o Cur.name \o "\" not declared"))
       ELSE LET r == EvalExpression(envs, Top.env, Cur.expr)
            IN  IF ~r.ok THEN Throws(ThrowError(r.msg))
                ELSE IF SetTarget(envs, Top.env, Cur.name) = 0
                     THEN Throws(ThrowError("Variable \"" \o Cur.name \o "\" not declared"))
                ELSE /\ envs' = EnvSet(envs, Top.env, Cur.name, r.val)
                     /\ stack' = SetTop([Top EXCEPT !.i = @ + 1])
                     /\ UNCHANGED <<functions, pending, said, iters>>
    /\ UNCHANGED <<prog, status>>

\* what the say handler pushes
SayText(es, e, line) ==
    IF line.quoted THEN line.text
    ELSE LET r == EvalExpression(es, e, line.expr)
         IN  IF r.ok THEN StringOf(r.val) ELSE "Error in say: " \o r.msg

\* the say handler with a slip: the evaluation error is not caught
SayStmtNoCatch ==
    /\ Dispatch("say")
    /\ Count
    /\ IF ~Cur.quoted /\ ~EvalExpression(envs, Top.env, Cur.expr).ok
       THEN Throws(ThrowError(EvalExpression(envs, Top.env, Cur.expr).msg))
       ELSE /\ stack' = SetTop([Top EXCEPT !.output = Append(@, SayText(envs, Top.env, Cur)), !.i = @ + 1])
            /\ said' = Append(said, SayText(envs, Top.env, Cur))
            /\ UNCHANGED <<envs, functions, pending, iters>>
    /\ UNCHANGED <<prog, status>>

\* say ARG
SayStmt ==
    /\ Dispatch("say")
    /\ Count
    /\ stack' = SetTop([Top EXCEPT !.output = Append(@, SayText(envs, Top.env, Cur)), !.i = @ + 1])
    /\ said' = Append(said, SayText(envs, Top.env, Cur))
    /\ UNCHANGED <<prog, envs, functions, pending, status, iters>>

\* if EXPR:
IfStmt ==
    /\ Dispatch("if")
    /\ Count
    /\ LET r == EvalExpression(envs, Top.env, Cur.expr)
           blockEnd == BlockEndOf(Top.lines, Top.i + 1)
       IN  IF ~r.ok THEN Throws(ThrowError(r.msg))
           ELSE IF Truthy(r.val)
                THEN /\ Enter([Top EXCEPT !.pc = "if", !.be = blockEnd],
                              Top.lines, Top.i + 1, blockEnd, Top.env)
                     /\ UNCHANGED <<functions, pending, said, iters>>
           ELSE /\ stack' = SetTop([Top EXCEPT !.i = blockEnd])
                /\ UNCHANGED <<envs, functions, pending, said, iters>>
    /\ UNCHANGED <<prog, status>>

\* else:
ElseStmt ==
    /\ Dispatch("else")
    /\ Count
    /\ LET blockEnd == BlockEndOf(Top.lines, Top.i + 1)
       IN  Enter([Top EXCEPT !.pc = "else", !.be = blockEnd],
                 Top.lines, Top.i + 1, blockEnd, Top.env)
    /\ UNCHANGED <<prog, functions, pending, status, said, iters>>

\* RepeatCond with an off-by-one slip: one iteration too many
RepeatCondOffByOne(c, count) == c <= count

\* the condition of for (let c = 0; c < count; c++)
RepeatCond(c, count) == c < count

\* the for loop of the repeat handler, at its test, in the invocation f
RepeatLoop(f) ==
    IF RepeatCond(f.c, f.lines[f.i + 1].count)
    THEN Enter(f, f.lines, f.i + 1, f.be, f.env)
    ELSE /\ stack' = SetTop([f EXCEPT !.i = f.be, !.pc = "run"])
         /\ UNCHANGED envs

\* repeat N:
RepeatStmt ==
    /\ Dispatch("repeat")
    /\ Count
    /\ RepeatLoop([Top EXCEPT !.pc = "repeat", !.c = 0, !.be = BlockEndOf(Top.lines, Top.i + 1)])
    /\ UNCHANGED <<prog, functions, pending, status, said, iters>>

\* the repeat handler after c++
RepeatNext ==
    /\ Running
    /\ Top.pc = "repeat"
    /\ RepeatLoop(Top)
    /\ UNCHANGED <<prog, functions, pending, status, nexec, said, iters>>

\* WhileCond with a slip: the loop runs whenever the condition has a value
WhileCondAnyValue(v) == TRUE

\* the truth value the while handler loops on
WhileCond(v) == Truthy(v)

\* while (evalExpression(condExpr, env)) { ... } at its test, in the invocation f
WhileLoop(f) ==
    LET r == EvalExpression(envs, f.env, f.lines[f.i + 1].expr)
    IN  IF ~r.ok
        THEN /\ stack' = SetTop(f)
             /\ pending' = ThrowError(r.msg)
             /\ UNCHANGED <<envs, iters>>
        ELSE IF WhileCond(r.val)
        THEN /\ iters < MaxWhileIters
             /\ iters' = iters + 1
             /\ Enter(f, f.lines, f.i + 1, f.be, f.env)
             /\ UNCHANGED pending
        ELSE /\ stack' = SetTop([f EXCEPT !.i = f.be, !.pc = "run"])
             /\ UNCHANGED <<envs, pending, iters>>

\* while EXPR:
WhileStmt ==
    /\ Dispatch("while")
    /\ Count
    /\ WhileLoop([Top EXCEPT !.pc = "while", !.be = BlockEndOf(Top.lines, Top.i + 1)])
    /\ UNCHANGED <<prog, functions, status, said>>

\* the while handler after an iteration
WhileNext ==
    /\ Running
    /\ Top.pc = "while"
    /\ WhileLoop(Top)
    /\ UNCHANGED <<prog, functions, status, nexec, said>>

\* the function handler with a slip: a name already defined keeps its first definition
FunctionStmtKeepFirst ==
    /\ Dispatch("function")
    /\ Count
    /\ LET blockEnd == BlockEndOf(Top.lines, Top.i + 1)
       IN  /\ functions' = functions @@
                           (Cur.name :> [params |-> Cur.params,
                                         bodyStart |-> Top.i + 1,
                                         bodyEnd |-> blockEnd,
                                         bodyLines |-> SubSeq(Top.lines, Top.i + 2, blockEnd)])
           /\ stack' = SetTop([Top EXCEPT !.i = blockEnd])
    /\ UNCHANGED <<prog, envs, pending, status, said, iters>>

\* function NAME(PARAMS):
FunctionStmt ==
    /\ Dispatch("function")
    /\ Count
    /\ LET blockEnd == BlockEndOf(Top.lines, Top.i + 1)
       IN  /\ functions' = (Cur.name :> [params |-> Cur.params,
                                         bodyStart |-> Top.i + 1,
                                         bodyEnd |-> blockEnd,
                                         bodyLines |-> SubSeq(Top.lines, Top.i + 2, blockEnd)])
                           @@ functions
           /\ stack' = SetTop([Top EXCEPT !.i = blockEnd])
    /\ UNCHANGED <<prog, envs, pending, status, said, iters>>

\* return EXPR
ReturnStmt ==
    /\ Dispatch("return")
    /\ Count
    /\ LET r == EvalExpression(envs, Top.env, Cur.expr)
       IN  IF ~r.ok THEN Throws(ThrowError(r.msg)) ELSE Throws(ThrowReturn(r.val))
    /\ UNCHANGED <<prog, status>>

\* throw new Error(`Unknown or unsupported statement: ${line}`)
UnknownStmt ==
    /\ Dispatch("bad")
    /\ Count
    /\ Throws(ThrowError("Unknown or unsupported statement: " \o Cur.text))
    /\ UNCHANGED <<prog, status>>

(* ============================ call protocol ============================ *)

\* argsStr.split(',').map(a => evalExpression(a.trim(), env)): left to right, the first failure throws
RECURSIVE EvalArgs(_, _, _)
EvalArgs(es, e, args) ==
    IF args = <<>> THEN [ok |-> TRUE, vals |-> <<>>, msg |-> ""]
    ELSE LET r == EvalExpression(es, e, Head(args))
         IN  IF ~r.ok THEN [ok |-> FALSE, vals |-> <<>>, msg |-> r.msg]
             ELSE LET rest == EvalArgs(es, e, Tail(args))
                  IN  IF ~rest.ok THEN rest
                      ELSE [ok |-> TRUE, vals |-> <<r.val>> \o rest.vals, msg |-> ""]

\* ArityMismatch with a slip: only surplus arguments are refused
ArityTooMany(nargs, nparams) == nargs > nparams

\* args.length !== func.params.length
ArityMismatch(nargs, nparams) == nargs # nparams

\* CallEnvParent with a slip: the call environment is chained to the scope of the call site
CallEnvParentCaller(callerEnv) == callerEnv

\* the parent given to the environment of a call made from the scope callerEnv
CallEnvParent(callerEnv) == GlobalEnv

\* for (let j = 0; j < args.length; j++) funcEnv.declareVar(func.params[j], args[j])
RECURSIVE BindParams(_, _, _)
BindParams(env, params, args) ==
    IF args = <<>> THEN env
    ELSE BindParams([env EXCEPT !.vars = (Head(params) :> Head(args)) @@ @],
                    Tail(params), Tail(args))

\* NAME(ARGS)
CallStmt ==
    /\ Dispatch("call")
    /\ Count
    /\ IF Cur.name \notin DOMAIN functions
       THEN Throws(ThrowError("Function \"" \o Cur.name \o "\" not found"))
       ELSE LET a == EvalArgs(envs, Top.env, Cur.args)
                func == functions[Cur.name]
            IN  IF ~a.ok THEN Throws(ThrowError(a.msg))
                ELSE IF ArityMismatch(Len(a.vals), Len(func.params))
                     THEN Throws(ThrowError("Function \"" \o Cur.name \o "\" expects "
                                            \o ToString(Len(func.params)) \o " arguments"))
                ELSE /\ envs' = Append(envs, BindParams(NewEnvironment(CallEnvParent(Top.env)),
                                                        func.params, a.vals))
                     /\ stack' = Append(SetTop([Top EXCEPT !.pc = "call"]),
                                        Frame(func.bodyLines, 0, Len(func.bodyLines), Len(envs) + 1))
                     /\ UNCHANGED <<functions, pending, said, iters>>
    /\ UNCHANGED <<prog, status>>

(* ================= returning from interpretBlock, throwing ============= *)

\* while (i < end) is over: return output
BlockReturn ==
    /\ Running
    /\ Top.pc = "run"
    /\ Top.i >= Top.end
    /\ Leave
    /\ pending' = ResultArray(Top.output)
    /\ UNCHANGED <<prog, functions, status, nexec, said, iters>>

Returned(pc) == status = "running" /\ pending.k = "result" /\ stack # <<>> /\ Top.pc = pc

\* output.push(...blockOutput) throws a TypeError unless blockOutput is an array
Spread(f) ==
    IF pending.t = "array"
    THEN /\ stack' = SetTop([f EXCEPT !.output = @ \o pending.out])
         /\ pending' = NoPending
    ELSE /\ pending' = ThrowTypeError("blockOutput is not iterable")
         /\ UNCHANGED stack

\* output.push(...blockOutput); i = blockEnd in the if handler
IfDone ==
    /\ Returned("if")
    /\ Spread([Top EXCEPT !.i = Top.be, !.pc = "run"])
    /\ UNCHANGED <<prog, envs, functions, status, nexec, said, iters>>

\* output.push(...blockOutput); i = blockEnd in the else handler
ElseDone ==
    /\ Returned("else")
    /\ Spread([Top EXCEPT !.i = Top.be, !.pc = "run"])
    /\ UNCHANGED <<prog, envs, functions, status, nexec, said, iters>>

\* output.push(...blockOutput); c++ in the repeat handler
RepeatDone ==
    /\ Returned("repeat")
    /\ Spread([Top EXCEPT !.c = @ + 1])
    /\ UNCHANGED <<prog, envs, functions, status, nexec, said, iters>>

\* output.push(...blockOutput) in the while handler
WhileDone ==
    /\ Returned("while")
    /\ Spread(Top)
    /\ UNCHANGED <<prog, envs, functions, status, nexec, said, iters>>

\* return interpretBlock(func.bodyLines, ...).output: undefined for an array or a
\* number, a TypeError (rethrown by the catch) when the body returned undefined
CallDone ==
    /\ Returned("call")
    /\ IF pending.t = "undefined"
       THEN /\ pending' = ThrowTypeError("Cannot read properties of undefined")
            /\ UNCHANGED <<stack, envs>>
       ELSE /\ Leave
            /\ pending' = ResultUndefined
    /\ UNCHANGED <<prog, functions, status, nexec, said, iters>>

\* Catches with a slip: a loop handler stops the return signal, as for a break
CatchesInLoop(f, p) == f.pc \in {"call", "repeat", "while"} /\ p.t = "return"

\* catch (e) { if (e.type === 'return') ... } of the call handler in the invocation f
Catches(f, p) == f.pc = "call" /\ p.t = "return"

Thrown == status = "running" /\ pending.k = "throw" /\ stack # <<>>

\* return e.value
CatchReturn ==
    /\ Thrown
    /\ Catches(Top, pending)
    /\ Leave
    /\ pending' = ResultValue(pending.val)
    /\ UNCHANGED <<prog, functions, status, nexec, said, iters>>

\* an exception leaves an invocation that does not catch it
Propagate ==
    /\ Thrown
    /\ ~Catches(Top, pending)
    /\ Leave
    /\ UNCHANGED <<prog, functions, pending, status, nexec, said, iters>>

\* interpret() resolves with what the top-level interpretBlock returned
ResolveRun ==
    /\ status = "running" /\ pending.k = "result" /\ stack = <<>>
    /\ status' = "resolved"
    /\ UNCHANGED <<prog, stack, envs, functions, pending, nexec, said, iters>>

\* interpret() rejects with what the top-level interpretBlock threw
Reject ==
    /\ status = "running" /\ pending.k = "throw" /\ stack = <<>>
    /\ status' = "rejected"
    /\ UNCHANGED <<prog, stack, envs, functions, pending, nexec, said, iters>>

(* ============================== programs =============================== *)

\* every line carries its position in the program text, so that the copy of a
\* function body refers to the lines it was sliced from
WithIds(ls) == [k \in 1..Len(ls) |-> [ls[k] EXCEPT !.id = k]]

Values == {0, 3, 10}
Counts == 0..MaxRepeat

\* scenario 2 of the spec: if / else at top level
IfElseTop(v) == WithIds(<<
    Let(0, "x", Val(Num(v))),
    If(0, Bin("gt", Var("x"), Num(5))),
    SayLit(1, "big"),
    Else(0),
    SayLit(1, "small"),
    SayLit(0, "end") >>)

\* the same if / else inside a loop body
IfElseNested(v) == WithIds(<<
    Let(0, "x", Val(Num(v))),
    Repeat(0, 1),
    If(1, Bin("gt", Var("x"), Num(5))),
    SayLit(2, "big"),
    Else(1),
    SayLit(2, "small") >>)

\* assignment in a loop body / in a branch to a variable of the enclosing scope
AssignInLoop(v) == WithIds(<<
    Let(0, "x", Val(Num(v))),
    Repeat(0, 2),
    Assign(1, "x", Bin("add", Var("x"), Num(1))),
    Say(0, Val(Var("x"))) >>)

AssignInBranch(v) == WithIds(<<
    Let(0, "x", Val(Num(v))),
    If(0, Bin("lt", Var("x"), Num(5))),
    Assign(1, "x", Bin("add", Var("x"), Num(1))),
    Say(0, Val(Var("x"))) >>)

\* scenario 4 of the spec: a definition and a standalone call
CallOnly(v, w) == WithIds(<<
    Function(0, "add", <<"a", "b">>),
    Return(1, Bin("add", Var("a"), Var("b"))),
    Call(0, "add", <<Val(Num(v)), Val(Num(w))>>) >>)

\* say before, inside and after a call
SayInCall(v) == WithIds(<<
    Function(0, "greet", <<"n">>),
    Say(1, Val(Var("n"))),
    SayLit(0, "start"),
    Call(0, "greet", <<Val(Num(v))>>),
    SayLit(0, "end") >>)

\* a branch that declares the name of a variable of its parent, as a variable or as a constant
Shadow(asConst, v) == WithIds(<<
    Let(0, "x", Val(Num(v))),
    If(0, Bin("lt", Var("x"), Num(20))),
    IF asConst THEN SetC(1, "x", Val(Num(2))) ELSE Let(1, "x", Val(Num(2))),
    Say(1, Val(Var("x"))),
    Assign(1, "x", Val(Num(7))),
    Say(1, Val(Var("x"))),
    Say(0, Val(Var("x"))) >>)

\* a parameter that has the name of a global variable
ShadowParam(v) == WithIds(<<
    Let(0, "x", Val(Num(v))),
    Function(0, "f", <<"x">>),
    Assign(1, "x", Bin("add", Var("x"), Num(1))),
    Say(1, Val(Var("x"))),
    Repeat(0, 1),
    Call(1, "f", <<Val(Num(5))>>),
    Say(0, Val(Var("x"))) >>)

\* scenario 3 of the spec, with a let in the body and a read after the loop
RepeatLet(n) == WithIds(<<
    Repeat(0, n),
    Let(1, "t", Val(Num(7))),
    Say(1, Val(Var("t"))),
    Say(0, Val(Var("t"))) >>)

\* a loop inside a loop
RepeatNested(n, m) == WithIds(<<
    Repeat(0, n),
    SayLit(1, "outer"),
    Repeat(1, m),
    Let(2, "t", Val(Num(1))),
    SayLit(2, "inner") >>)

\* a while loop whose body cannot change the condition
WhilePlain(v) == WithIds(<<
    Let(0, "x", Val(Num(v))),
    While(0, Bin("gt", Var("x"), Num(5))),
    SayLit(1, "loop"),
    SayLit(0, "after") >>)

\* a while loop that counts down through a constant of its body
WhileCountdown(v) == WithIds(<<
    Let(0, "x", Val(Num(v))),
    While(0, Bin("gt", Var("x"), Num(1))),
    SetC(1, "x", Bin("sub", Var("x"), Num(1))),
    Assign(1, "x", Val(Var("x"))),
    Say(1, Val(Var("x"))),
    SayLit(0, "after") >>)

\* a while loop whose condition cannot be evaluated
WhileBadCond == WithIds(<<
    While(0, Bin("gt", Var("nope"), Num(5))),
    SayLit(1, "loop") >>)

\* a function that reads a name of its caller's block, and a global
ReadsCaller(inLet, v) == WithIds(<<
    Let(0, "g", Val(Num(v))),
    Function(0, "f", <<>>),
    Say(1, Val(Var("g"))),
    IF inLet THEN Let(1, "y", Val(Var("loc"))) ELSE Say(1, Val(Var("loc"))),
    Repeat(0, 1),
    Let(1, "loc", Val(Num(5))),
    Call(1, "f", <<>>) >>)

\* calls with one, two and three arguments to a function of two parameters,
\* from a block that holds the argument values
Arity(k, v) == WithIds(<<
    Let(0, "a", Val(Num(99))),
    Function(0, "f", <<"a", "b">>),
    Let(1, "s", Bin("sub", Var("a"), Var("b"))),
    Say(1, Val(Var("s"))),
    If(0, Bin("gt", Var("a"), Num(5))),
    Let(1, "p", Val(Num(v))),
    Call(1, "f", SubSeq(<<Val(Var("p")), Val(Num(2)), Val(Num(4))>>, 1, k)) >>)

\* a call of an unknown function, and a call whose argument cannot be evaluated
CallMissing == WithIds(<<
    Call(0, "nofn", <<>>) >>)

CallBadArg == WithIds(<<
    Function(0, "f", <<"a">>),
    SayLit(1, "body"),
    Call(0, "f", <<Val(Var("nope"))>>) >>)

\* return inside nested blocks of a function body
ReturnNested(v) == WithIds(<<
    Function(0, "f", <<"a">>),
    Repeat(1, 3),
    SayLit(2, "in"),
    If(2, Bin("gt", Var("a"), Num(5))),
    Return(3, Bin("add", Var("a"), Num(1))),
    SayLit(2, "no"),
    Call(0, "f", <<Val(Num(v))>>),
    SayLit(0, "after") >>)

\* return inside a while loop of a function called by another function
ReturnInWhile(v) == WithIds(<<
    Function(0, "inner", <<"a">>),
    While(1, Bin("gt", Var("a"), Num(5))),
    SayLit(2, "w"),
    Return(2, Val(Var("a"))),
    SayLit(1, "tail"),
    Blank,
    Function(0, "outer", <<"a">>),
    Call(1, "inner", <<Val(Var("a"))>>),
    SayLit(1, "unreached"),
    Blank,
    Call(0, "outer", <<Val(Num(v))>>) >>)

\* return with no call active: at top level and in a top-level block
ReturnTop(nested, v) == WithIds(<<
    SayLit(0, "begin"),
    IF nested THEN Repeat(0, 2) ELSE Blank,
    Return(IF nested THEN 1 ELSE 0, Val(Num(v))),
    SayLit(0, "unreached") >>)

\* a line that is no statement
Unknown == WithIds(<<
    SayLit(0, "ok"),
    Bad(0, "print 1") >>)

\* a name declared twice in the same scope, by let or set in either order, at
\* top level or in a branch
Redeclare(firstConst, secondConst, nested, v) == WithIds(<<
    Let(0, "g", Val(Num(1))),
    IF nested THEN If(0, Bin("gt", Var("g"), Num(0))) ELSE Blank,
    IF firstConst THEN SetC(IF nested THEN 1 ELSE 0, "x", Val(Num(v)))
                  ELSE Let(IF nested THEN 1 ELSE 0, "x", Val(Num(v))),
    IF secondConst THEN SetC(IF nested THEN 1 ELSE 0, "x", Val(Num(5)))
                   ELSE Let(IF nested THEN 1 ELSE 0, "x", Val(Num(5))),
    Say(IF nested THEN 1 ELSE 0, Val(Var("x"))) >>)

\* a parameter declared again in the function body
RedeclareParam(asConst, v) == WithIds(<<
    Function(0, "f", <<"a">>),
    IF asConst THEN SetC(1, "a", Val(Num(5))) ELSE Let(1, "a", Val(Num(5))),
    Say(1, Val(Var("a"))),
    Call(0, "f", <<Val(Num(v))>>) >>)

\* a say whose argument cannot be evaluated, then a let that cannot be either
SayError(nested, v) == WithIds(<<
    Let(0, "x", Val(Num(v))),
    IF nested THEN Repeat(0, 2) ELSE Blank,
    Say(IF nested THEN 1 ELSE 0, Bin("add", Var("x"), Var("nope"))),
    SayLit(IF nested THEN 1 ELSE 0, "next"),
    Let(0, "y", Val(Var("nope"))),
    SayLit(0, "unreached") >>)

\* an assignment to a name that no scope declares
AssignUndeclared(nested, v) == WithIds(<<
    Function(0, "f", <<>>),
    SayLit(1, "body"),
    Let(0, "x", Val(Num(v))),
    SayLit(0, "before"),
    IF nested THEN If(0, Bin("lt", Var("x"), Num(20))) ELSE Blank,
    Assign(IF nested THEN 1 ELSE 0, "zz", Val(Var("x"))),
    SayLit(0, "unreached") >>)

\* scenario 5 of the spec: a constant of the root scope is assigned
ConstAssign(v, w) == WithIds(<<
    SetC(0, "PI", Val(Num(v))),
    Say(0, Val(Var("PI"))),
    Assign(0, "PI", Val(Num(w))),
    Say(0, Val(Var("PI"))) >>)

\* a function defined twice, with other bodies and parameters, then called
Redefine(v) == WithIds(<<
    SayLit(0, "start"),
    Function(0, "f", <<>>),
    SayLit(1, "one"),
    Let(1, "leak", Val(Num(1))),
    Function(0, "f", <<"a">>),
    SayLit(1, "two"),
    Say(1, Val(Var("a"))),
    Call(0, "f", <<Val(Num(v))>>) >>)

\* blocks that end the program text, an empty body, and a block inside a function body
Blocks(v) == WithIds(<<
    Function(0, "f", <<"a">>),
    If(1, Bin("lt", Var("a"), Num(5))),
    SayLit(2, "small"),
    Repeat(1, 2),
    Let(0, "x", Val(Num(v))),
    Repeat(0, 2),
    SayLit(0, "flat"),
    If(0, Bin("lt", Var("x"), Num(20))),
    Repeat(1, 2),
    SayLit(2, "deep"),
    While(1, Bin("gt", Var("x"), Num(20))),
    Blank,
    Call(0, "f", <<Val(Var("x"))>>) >>)

\* an assignment to a name that no statement declared but every object inherits
AssignInherited(nested, v) == WithIds(<<
    Let(0, "x", Val(Num(v))),
    Say(0, Val(Var("toString"))),
    IF nested THEN If(0, Bin("lt", Var("x"), Num(20))) ELSE Blank,
    Assign(IF nested THEN 1 ELSE 0, "toString", Bin("add", Var("x"), Num(1))),
    Say(IF nested THEN 1 ELSE 0, Val(Var("toString"))),
    SayLit(0, "after") >>)

\* variables, constants and a parameter side by side in the root and in a call scope
Mixed(v) == WithIds(<<
    Let(0, "a", Val(Num(v))),
    SetC(0, "b", Val(Var("a"))),
    Function(0, "f", <<"p">>),
    SetC(1, "q", Val(Var("p"))),
    Let(1, "b", Bin("add", Var("q"), Num(1))),
    Assign(1, "p", Val(Var("b"))),
    Say(1, Val(Var("p"))),
    Call(0, "f", <<Val(Var("a"))>>) >>)

Programs ==
    {IfElseTop(v) : v \in Values} \cup {IfElseNested(v) : v \in Values}
    \cup {AssignInLoop(v) : v \in Values} \cup {AssignInBranch(v) : v \in Values}
    \cup {CallOnly(v, w) : v, w \in Values} \cup {SayInCall(v) : v \in Values}
    \cup {Shadow(c, v) : c \in BOOLEAN, v \in Values} \cup {ShadowParam(v) : v \in Values}
    \cup {RepeatLet(n) : n \in Counts} \cup {RepeatNested(n, m) : n, m \in Counts}
    \cup {WhilePlain(v) : v \in Values} \cup {WhileCountdown(v) : v \in Values}
    \cup {WhileBadCond}
    \cup {ReadsCaller(b, v) : b \in BOOLEAN, v \in Values}
    \cup {Arity(k, v) : k \in 1..3, v \in Values}
    \cup {CallMissing, CallBadArg}
    \cup {ReturnNested(v) : v \in Values} \cup {ReturnInWhile(v) : v \in Values}
    \cup {ReturnTop(b, v) : b \in BOOLEAN, v \in Values}
    \cup {Unknown}
    \cup {Redeclare(a, b, n, v) : a, b, n \in BOOLEAN, v \in Values}
    \cup {RedeclareParam(c, v) : c \in BOOLEAN, v \in Values}
    \cup {SayError(n, v) : n \in BOOLEAN, v \in Values}
    \cup {AssignUndeclared(n, v) : n \in BOOLEAN, v \in Values}
    \cup {ConstAssign(v, w) : v, w \in Values}
    \cup {Redefine(v) : v \in Values}
    \cup {Blocks(v) : v \in Values}
    \cup {Mixed(v) : v \in Values}
    \cup {AssignInherited(n, v) : n \in BOOLEAN, v \in Values}

(* =========================== specification ============================= *)

\* interpret(lines): runtime.reset(), then interpretBlock(lines, 0, lines.length, runtime.globalEnv)
Init ==
    /\ prog \in Programs
    /\ stack = <<Frame(prog, 0, Len(prog), GlobalEnv)>>
    /\ envs = <<NewEnvironment(0)>>
    /\ functions = [n \in {} |-> 0]
    /\ pending = NoPending
    /\ status = "running"
    /\ nexec = [k \in 1..Len(prog) |-> 0]
    /\ said = <<>>
    /\ iters = 0

Next ==
    \/ SkipBlank
    \/ LetStmt
    \/ SetStmt
    \/ AssignStmt
    \/ SayStmt
    \/ IfStmt
    \/ ElseStmt
    \/ RepeatStmt
    \/ RepeatNext
    \/ WhileStmt
    \/ WhileNext
    \/ FunctionStmt
    \/ ReturnStmt
    \/ UnknownStmt
    \/ CallStmt
    \/ BlockReturn
    \/ IfDone
    \/ ElseDone
    \/ RepeatDone
    \/ WhileDone
    \/ CallDone
    \/ CatchReturn
    \/ Propagate
    \/ ResolveRun
    \/ Reject

Spec == Init /\ [][Next]_vars

\* the promise returned by interpret() is settled
Finished == status # "running"

\* the interpreter runs to completion on one thread: a step that can be taken is taken
FairSpec == Spec /\ WF_vars(Next)

(* ============================== claims ================================= *)

\* the else at line q belongs to the if at line p of the program text, and both
\* have a body
ElseOf(p, q) ==
    /\ p + 1 < q /\ q < Len(prog)
    /\ prog[p].kind = "if" /\ prog[q].kind = "else" /\ prog[q].ind = prog[p].ind
    /\ \A k \in (p + 1)..(q - 1) : prog[k].ind > prog[p].ind
    /\ prog[q + 1].ind > prog[q].ind

\* C1: when an if block is followed by an else block, every execution of the if
\* statement runs exactly one of the two bodies (the if-body when the condition
\* is true, the else-body when it is false), at top level and nested: in a run
\* that succeeds the two bodies were entered, together, as often as the if
\* statement was executed, and scenario 2 of the spec prints one of big / small.
C1_ExactlyOneBranch ==
    status = "resolved" =>
        /\ \A p, q \in 1..Len(prog) :
               ElseOf(p, q) => nexec[p + 1] + nexec[q + 1] = nexec[p]
        /\ \A v \in Values :
               prog = IfElseTop(v) =>
                   pending.out = <<IF v > 5 THEN "big" ELSE "small", "end">>

\* the nearest environment of the chain of e that declares name, 0 when none does
\* the names a scope holds by let, set or parameter binding
Declared(es, e) == DOMAIN es[e].vars \cup DOMAIN es[e].consts

RECURSIVE Owner(_, _, _)
Owner(es, e, name) ==
    IF name \in Declared(es, e) THEN e
    ELSE IF es[e].parent # 0 THEN Owner(es, es[e].parent, name)
    ELSE 0

\* C2: an assignment NAME = EXPR executed in a child scope, where NAME is
\* declared (as a variable) only in an ancestor scope, succeeds, changes that
\* ancestor's binding to the new value and creates no binding in the child.
C2_AssignReachesAncestor ==
    [][ ( /\ Dispatch("assign")
          /\ Cur.name \notin Declared(envs, Top.env)
          /\ Owner(envs, Top.env, Cur.name) # 0
          /\ Cur.name \in DOMAIN envs[Owner(envs, Top.env, Cur.name)].vars
          /\ EvalExpression(envs, Top.env, Cur.expr).ok )
        => ( /\ pending'.k = "none"
             /\ Len(envs') = Len(envs)
             /\ envs'[Owner(envs, Top.env, Cur.name)].vars[Cur.name]
                  = EvalExpression(envs, Top.env, Cur.expr).val
             /\ Cur.name \notin Declared(envs', Top.env) ) ]_vars

\* C3: the result of every successful top-level run is the sequence of the
\* strings of the executed say statements, in execution order, nested blocks,
\* loop iterations and called function bodies included (so a definition and a
\* call whose body only returns yields the empty sequence).
C3_ResultIsSaid ==
    status = "resolved" => (pending.t = "array" /\ pending.out = said)

SameBinding(es1, es2, e, n) ==
    /\ (n \in DOMAIN es1[e].vars) = (n \in DOMAIN es2[e].vars)
    /\ (n \in DOMAIN es1[e].consts) = (n \in DOMAIN es2[e].consts)
    /\ (n \in DOMAIN es1[e].vars => es1[e].vars[n] = es2[e].vars[n])
    /\ (n \in DOMAIN es1[e].consts => es1[e].consts[n] = es2[e].consts[n])

OwnValue(es, e, n) ==
    IF n \in DOMAIN es[e].vars THEN es[e].vars[n] ELSE es[e].consts[n]

\* C4: a scope that declares a name reads its own value of that name, and no
\* statement it executes alters the binding of that name in any other scope,
\* so its parent's binding is the same after the child is discarded as before.
C4_ShadowKeepsParent ==
    [][ (Running /\ Top.pc = "run") =>
          \A n \in Declared(envs, Top.env) :
              /\ EvalExpression(envs, Top.env, Val(Var(n))) = Found(OwnValue(envs, Top.env, n))
              /\ \A e \in 1..Len(envs) :
                     (e # Top.env /\ e <= Len(envs')) => SameBinding(envs, envs', e, n) ]_vars

\* C10: a return executed while no call is active ends the run with an error,
\* never with the return signal of a call as the outcome of the run.
C10_TopLevelReturnIsError ==
    status = "rejected" => pending.t # "return"

\* in this step the invocation k leaves the repeat handler of its current line
RepeatExits(k) ==
    /\ k <= Len(stack) /\ k <= Len(stack')
    /\ stack[k].i < stack[k].end
    /\ stack[k].lines[stack[k].i + 1].kind = "repeat"
    /\ stack[k].pc \in {"run", "repeat"}
    /\ stack'[k].pc = "run"
    /\ stack'[k].i > stack[k].i

\* an invocation that runs an iteration of a repeat loop and has executed nothing
\* yet has an empty environment whose parent is the scope of the repeat statement
C5_FreshScope ==
    \A k \in 2..Len(stack) :
        (stack[k - 1].pc = "repeat" /\ stack[k].pc = "run" /\ stack[k].i = stack[k - 1].i + 1)
            => envs[stack[k].env] = NewEnvironment(stack[k - 1].env)

\* repeat n: let t = 7 / say t, then say t: n lines "7", and t is unknown after the loop
C5_LetEveryIteration ==
    \A n \in Counts :
        (status = "resolved" /\ prog = RepeatLet(n)) =>
            pending.out = [k \in 1..n |-> "7"]
                          \o <<"Error in say: Variable or index error: t - Variable \"t\" not found">>

\* C5: repeat N: executes its body exactly N times (zero times for N = 0): when
\* the statement is left, the first line of its body has been executed N times
\* for each execution of the statement; each iteration starts in a fresh child
\* scope of the enclosing scope, so a let in the body succeeds in every
\* iteration and its binding is visible neither in the next iteration nor after
\* the loop.
C5_RepeatRunsBodyNTimes ==
    /\ [](C5_FreshScope /\ C5_LetEveryIteration)
    /\ [][ \A k \in 1..Len(stack) :
             RepeatExits(k) =>
                LET f == stack[k]
                    line == f.lines[f.i + 1]
                IN  /\ stack'[k].i = BlockEndOf(f.lines, f.i + 1)
                    /\ stack'[k].i > f.i + 1 =>
                          nexec'[f.lines[f.i + 2].id] = line.count * nexec'[line.id] ]_vars

C5_Witness ==
    /\ status = "resolved"
    /\ \E r \in 1..(Len(prog) - 1) :
          /\ prog[r].kind = "repeat" /\ prog[r].count >= 2
          /\ prog[r + 1].kind = "let"
          /\ nexec[r + 1] = prog[r].count

\* the countdown "v-1", ..., "1" printed by WhileCountdown(v)
Countdown(v) == IF v > 1 THEN [k \in 1..(v - 1) |-> ToString(v - k)] ELSE <<>>

C6_EndToEnd ==
    \A v \in Values :
        /\ (status = "resolved" /\ prog = WhilePlain(v)) =>
               (pending.out = <<"after">> /\ nexec[3] = 0)
        /\ (status = "resolved" /\ prog = WhileCountdown(v)) =>
               pending.out = Countdown(v) \o <<"after">>

\* C6: the body of while EXPR: is entered only in a step in which EXPR, evaluated
\* in the scope of the while statement, yields true (before every iteration);
\* when EXPR is false on the first evaluation the body is not executed, no
\* output is produced and execution continues with the first line after the body.
C6_WhileTestsBeforeBody ==
    /\ []C6_EndToEnd
    /\ [][ /\ ( /\ stack # <<>>
                /\ Len(stack') = Len(stack) + 1
                /\ stack'[Len(stack)].pc = "while" )
              => LET f == Top
                     r == EvalExpression(envs, f.env, f.lines[f.i + 1].expr)
                 IN  /\ r.ok /\ Truthy(r.val)
                     /\ stack'[Len(stack')].i = f.i + 1
                     /\ stack'[Len(stack')].end = BlockEndOf(f.lines, f.i + 1)
                     /\ envs'[Len(envs')] = NewEnvironment(f.env)
           /\ ( /\ Dispatch("while")
                /\ EvalExpression(envs, Top.env, Cur.expr).ok
                /\ ~Truthy(EvalExpression(envs, Top.env, Cur.expr).val) )
              => /\ Len(stack') = Len(stack)
                 /\ stack'[Len(stack)] = [Top EXCEPT !.i = BlockEndOf(Top.lines, Top.i + 1),
                                                      !.be = BlockEndOf(Top.lines, Top.i + 1)]
                 /\ nexec' = [nexec EXCEPT ![Cur.id] = @ + 1]
                 /\ UNCHANGED <<envs, said, pending>> ]_vars

C6_Witness ==
    /\ status = "resolved"
    /\ pending.out = <<"after">>
    /\ \E w \in 1..(Len(prog) - 1) :
          prog[w].kind = "while" /\ prog[w + 1].ind >= 1 /\ nexec[w] = 1 /\ nexec[w + 1] = 0

\* the invocation that runs the body of the innermost active call, 0 when no call is active
CallBase ==
    IF \E k \in 2..Len(stack) : stack[k - 1].pc = "call"
    THEN CHOOSE k \in 2..Len(stack) :
            /\ stack[k - 1].pc = "call"
            /\ \A j \in (k + 1)..Len(stack) : stack[j - 1].pc # "call"
    ELSE 0

\* C7: the environment of every call has the global environment as its parent,
\* and a name declared only in a non-global scope of the caller cannot be read
\* in the body (nor in its nested blocks), also when the call is made from a
\* nested block; a global can.
C7_CallScopeIsGlobal ==
    /\ \A k \in 2..Len(stack) :
           stack[k - 1].pc = "call" => envs[stack[k].env].parent = GlobalEnv
    /\ CallBase # 0 =>
           \A e \in 2..(CallBase - 1) : \A n \in Declared(envs, stack[e].env) :
               ( /\ n \notin Declared(envs, GlobalEnv)
                 /\ \A j \in CallBase..Len(stack) : n \notin Declared(envs, stack[j].env) )
               => ~EvalExpression(envs, Top.env, Val(Var(n))).ok
    /\ \A v \in Values :
           (status # "running" /\ prog = ReadsCaller(TRUE, v)) =>
               /\ status = "rejected"
               /\ pending.msg = "Variable or index error: loc - Variable \"loc\" not found"
               /\ said = <<ToString(v)>>

C7_Witness ==
    /\ Running /\ Top.pc = "run" /\ Top.i < Top.end
    /\ Len(stack) >= 3
    /\ stack[Len(stack) - 1].pc = "call"
    /\ "loc" \in Declared(envs, stack[Len(stack) - 1].env)
    /\ Cur.expr = Val(Var("loc"))

\* C8: a call whose argument count differs from the parameter count fails before
\* a parameter is bound and before a line of the body is executed; with the same
\* count the new call environment binds the i-th parameter name to the value of
\* the i-th argument, evaluated in the caller's scope.
C8_ArityBeforeBinding ==
    [][ ( /\ Dispatch("call")
          /\ Cur.name \in DOMAIN functions
          /\ EvalArgs(envs, Top.env, Cur.args).ok )
        => LET func == functions[Cur.name]
           IN  IF Len(Cur.args) # Len(func.params)
               THEN /\ pending'.k = "throw" /\ pending'.t = "error"
                    /\ nexec' = [nexec EXCEPT ![Cur.id] = @ + 1]
                    /\ UNCHANGED <<stack, envs, said>>
               ELSE /\ pending'.k = "none"
                    /\ Len(stack') = Len(stack) + 1
                    /\ Len(envs') = Len(envs) + 1
                    /\ stack'[Len(stack')].env = Len(envs')
                    /\ stack'[Len(stack')].lines = func.bodyLines
                    /\ envs'[Len(envs')].consts = EmptyMap
                    /\ DOMAIN envs'[Len(envs')].vars = {func.params[j] : j \in 1..Len(func.params)}
                    /\ \A j \in 1..Len(func.params) :
                          envs'[Len(envs')].vars[func.params[j]]
                              = EvalExpression(envs, Top.env, Cur.args[j]).val ]_vars

C8_Witness ==
    /\ pending.k = "throw"
    /\ pending.msg = "Function \"f\" expects 2 arguments"
    /\ Len(stack) = 2
    /\ "p" \in Declared(envs, Top.env)
    /\ \E k \in 1..3 : prog = Arity(k, 3) /\ nexec[3] = 0

C9_EndToEnd ==
    \A v \in Values :
        (status # "running" /\ prog = ReturnNested(v) /\ v > 5) =>
            (status = "resolved" /\ pending = ResultValue(NumV(v + 1)) /\ said = <<"in">>)

\* C9: a return EXPR executed in a function body, nested blocks included,
\* unwinds to the nearest enclosing call: while the signal travels no line is
\* executed, no loop iterates and no nested block's handler intercepts it, and
\* the call handler it reaches finishes with the evaluated value.
C9_ReturnUnwindsToCall ==
    /\ []C9_EndToEnd
    /\ [][ /\ ( /\ Dispatch("return")
                /\ EvalExpression(envs, Top.env, Cur.expr).ok )
              => ( /\ pending' = ThrowReturn(EvalExpression(envs, Top.env, Cur.expr).val)
                   /\ stack' = stack )
           /\ ( /\ pending.k = "throw" /\ pending.t = "return" /\ stack # <<>> )
              => ( /\ nexec' = nexec /\ said' = said /\ functions' = functions
                   /\ stack' = SubSeq(stack, 1, Len(stack) - 1)
                   /\ pending' = IF Top.pc = "call"
                                 THEN ResultValue(pending.val) ELSE pending ) ]_vars

C9_Witness ==
    /\ status = "resolved"
    /\ pending.t = "value"
    /\ \E r \in 1..(Len(prog) - 1) :
          /\ prog[r].kind = "repeat" /\ prog[r].ind >= 1 /\ prog[r].count = 3
          /\ nexec[r] = 1 /\ nexec[r + 1] = 1

(* C11: a let or set of a name that the current scope already holds, as a
   variable, a constant or a bound parameter, always throws, and no
   environment changes: the binding keeps its kind and its value. *)
C11_RedeclareFails ==
    [][ ( /\ (Dispatch("let") \/ Dispatch("set"))
          /\ Cur.name \in Declared(envs, Top.env) )
        => /\ pending'.k = "throw"
           /\ pending'.t = "error"
           /\ envs' = envs
           /\ stack' = stack ]_vars

\* a redeclaration has just been refused, the first declaration being a constant
\* (or a parameter) and the second a let (or a set)
C11_Witness ==
    /\ stack # <<>>
    /\ Top.i < Top.end
    /\ pending = ThrowError("Variable \"" \o Cur.name \o "\" already declared")
    /\ Top.pc = "run"
    /\ \/ Cur.kind = "let" /\ Cur.name \in DOMAIN envs[Top.env].consts
       \/ Cur.kind = "set" /\ Cur.name \in DOMAIN envs[Top.env].vars /\ Top.env > 1

\* an Error or TypeError is on its way up (the return signal is not an error)
ErrorThrown == pending.k = "throw" /\ pending.t \in {"error", "typeerror"}

(* C12: a say whose argument cannot be evaluated appends exactly one
   diagnostic line, changes no environment, throws nothing and goes on with
   the next line of its block; any other error leaves one invocation after
   the other until the run is rejected, and no statement executes, nothing
   is said and no binding changes on the way. *)
C12_OnlySayRecovers ==
    /\ [][ ( /\ Dispatch("say")
             /\ ~Cur.quoted
             /\ ~EvalExpression(envs, Top.env, Cur.expr).ok )
           => LET diag == "Error in say: " \o EvalExpression(envs, Top.env, Cur.expr).msg
              IN  /\ pending' = NoPending
                  /\ envs' = envs
                  /\ functions' = functions
                  /\ stack' = SetTop([Top EXCEPT !.output = Append(@, diag), !.i = @ + 1])
                  /\ said' = Append(said, diag) ]_vars
    /\ [][ ErrorThrown
           => /\ pending' = pending
              /\ nexec' = nexec
              /\ said' = said
              /\ functions' = functions
              /\ IF stack # <<>>
                 THEN /\ stack' = SubSeq(stack, 1, Len(stack) - 1)
                      /\ status' = "running"
                      /\ \A e \in 1..Len(envs') : envs'[e] = envs[e]
                 ELSE /\ status' = "rejected"
                      /\ envs' = envs ]_vars
    /\ [][ ( /\ Running /\ Top.pc = "run" /\ Top.i < Top.end
             /\ pending'.k = "throw" /\ pending'.t \in {"error", "typeerror"} )
           => Cur.kind # "say" ]_vars

\* a say in a loop failed twice and the run went on each time; the let after
\* the loop failed and the run was rejected before the last line
C12_Witness ==
    /\ status = "rejected"
    /\ ErrorThrown
    /\ Len(said) = 4
    /\ said[1] = "Error in say: Variable or index error: nope - Variable \"nope\" not found"
    /\ said[2] = "next"
    /\ said[3] = said[1]
    /\ nexec[Len(prog)] = 0

(* C13: an assignment to a name that neither the current scope nor any
   ancestor declares throws "not declared"; the environments, the function
   table and the output produced so far stay as they were. *)
C13_UndeclaredAssignFails ==
    [][ ( /\ Dispatch("assign")
          /\ Owner(envs, Top.env, Cur.name) = 0 )
        => /\ pending' = ThrowError("Variable \"" \o Cur.name \o "\" not declared")
           /\ envs' = envs
           /\ functions' = functions
           /\ stack' = stack
           /\ said' = said ]_vars

(* C14: in the root scope an assignment to a constant throws the
   "not declared" error of Environment.set and the constant keeps its value;
   and no step changes, removes or turns into a variable a constant of an
   environment that stays live. *)
C14_ConstantsKeepValue ==
    /\ [][ ( /\ Dispatch("assign")
             /\ Top.env = GlobalEnv
             /\ Cur.name \in DOMAIN envs[GlobalEnv].consts
             /\ EvalExpression(envs, Top.env, Cur.expr).ok )
           => /\ pending' = ThrowError("Variable \"" \o Cur.name \o "\" not declared")
              /\ envs' = envs ]_vars
    /\ [][ \A e \in 1..Len(envs) :
              e <= Len(envs')
              => \A n \in DOMAIN envs[e].consts :
                    /\ n \in DOMAIN envs'[e].consts
                    /\ envs'[e].consts[n] = envs[e].consts[n]
                    /\ n \notin DOMAIN envs'[e].vars ]_vars

\* set PI = v, then PI = w with w # v: the run is rejected with "not declared"
\* and PI is still v
C14_Witness ==
    /\ status = "rejected"
    /\ pending = ThrowError("Variable \"PI\" not declared")
    /\ nexec = <<1, 1, 1, 0>>
    /\ prog[3].kind = "assign"
    /\ prog[3].expr.l.n = 10
    /\ envs[GlobalEnv].consts = ("PI" :> NumV(3))
    /\ envs[GlobalEnv].vars = EmptyMap

(* C15: in every reachable state no environment, root, block scope or call
   scope, holds a name both as a variable and as a constant. *)
C15_VarsConstsDisjoint ==
    \A e \in 1..Len(envs) : DOMAIN envs[e].vars \cap DOMAIN envs[e].consts = {}

\* the root holds a variable and a constant, the call scope a parameter that
\* was assigned, a constant and a variable shadowing the root's constant
C15_Witness ==
    /\ Len(envs) = 2
    /\ DOMAIN envs[1].vars = {"a"}
    /\ DOMAIN envs[1].consts = {"b"}
    /\ DOMAIN envs[2].vars = {"p", "b"}
    /\ DOMAIN envs[2].consts = {"q"}
    /\ envs[2].vars["p"] = NumV(4)
    /\ said = <<"4">>

\* the function called by the invocation below the top has finished: its body
\* reached its end, or a return signal arrived at the call handler
CallFinished ==
    /\ status = "running"
    /\ stack # <<>>
    /\ Top.pc = "call"
    /\ \/ pending.k = "result" /\ pending.t = "array"
       \/ pending.k = "throw" /\ pending.t = "return"

(* C16: when a call statement finishes, by return or at the end of the body,
   the calling block stays, keeps the output it had collected and goes on
   with the line after the call. *)
C16_BlockContinuesAfterCall ==
    [][ CallFinished
        => /\ pending' = NoPending
           /\ stack' = SetTop([Top EXCEPT !.pc = "run", !.i = @ + 1]) ]_vars

(* C17: a function definition executes no line of its body (only the
   definition line is dispatched, nothing is said, no environment changes),
   stores the body lines and the parameters under the name, whatever was
   stored there before, leaves the other functions alone and resumes at the
   first line after the body; only a definition changes the function table,
   so a call runs the definition executed last. *)
C17_DefinitionStoresBody ==
    /\ [][ Dispatch("function")
           => LET be == stack'[Len(stack)].i
              IN  /\ Len(stack') = Len(stack)
                  /\ be > Top.i
                  /\ be <= Len(Top.lines)
                  /\ \A k \in (Top.i + 2)..be : Top.lines[k].ind >= 1
                  /\ (be = Len(Top.lines) \/ Top.lines[be + 1].ind = 0)
                  /\ stack' = SetTop([Top EXCEPT !.i = be])
                  /\ DOMAIN functions' = DOMAIN functions \cup {Cur.name}
                  /\ functions'[Cur.name].bodyLines = SubSeq(Top.lines, Top.i + 2, be)
                  /\ functions'[Cur.name].params = Cur.params
                  /\ \A n \in DOMAIN functions \ {Cur.name} : functions'[n] = functions[n]
                  /\ nexec' = [nexec EXCEPT ![Cur.id] = @ + 1]
                  /\ envs' = envs
                  /\ said' = said
                  /\ pending' = NoPending ]_vars
    /\ [][ functions' # functions => Dispatch("function") ]_vars
    /\ [][ ( Dispatch("call") /\ Len(stack') > Len(stack) )
           => stack'[Len(stack')].lines = functions[Cur.name].bodyLines ]_vars
    /\ [] ( (Finished /\ \E v \in Values : prog = Redefine(v))
            => /\ said = <<"start", "two", StringOf(NumV(prog[8].args[1].l.n))>>
               /\ nexec[3] = 0 /\ nexec[4] = 0
               /\ DOMAIN envs[GlobalEnv].vars = {} )

\* f was defined twice; the call ran the second body with the second parameter list
C17_Witness ==
    /\ status = "resolved"
    /\ said = <<"start", "two", "3">>
    /\ DOMAIN functions = {"f"}
    /\ functions["f"].params = <<"a">>
    /\ Len(functions["f"].bodyLines) = 2
    /\ nexec = <<1, 1, 0, 0, 1, 1, 1, 1>>

\* [i + 1, be) is the maximal run of prefixed lines after line i (0-based, as in the code)
IsBody(lines, i, be) ==
    /\ i + 1 <= be
    /\ be <= Len(lines)
    /\ \A k \in (i + 1)..(be - 1) : lines[k + 1].ind >= 1
    /\ (be = Len(lines) \/ lines[be + 1].ind = 0)

InHandler(f) == f.pc \in {"if", "else", "repeat", "while"}

BlockKinds == {"if", "else", "repeat", "while", "function"}

(* C18: the body taken by a block statement at line i is the maximal run of
   prefixed lines after i, so it holds no line without the prefix; its end
   never exceeds the end of the block the statement is in; the invocation
   started for the body works on exactly that range, and no invocation's
   index leaves its range. *)
C18_BodyIsMaximalRun ==
    /\ [] ( \A j \in 1..Len(stack) :
              LET f == stack[j]
              IN  /\ f.i <= f.end
                  /\ f.end <= Len(f.lines)
                  /\ InHandler(f)
                     => /\ IsBody(f.lines, f.i, f.be)
                        /\ f.be <= f.end
                        /\ j < Len(stack)
                           => /\ stack[j + 1].lines = f.lines
                              /\ stack[j + 1].end = f.be
                              /\ stack[j + 1].i >= f.i + 1 )
    /\ [][ ( /\ Running /\ Top.pc = "run" /\ Top.i < Top.end
             /\ Cur.kind \in BlockKinds
             /\ pending'.k = "none" )
           => IF Len(stack') = Len(stack)
              THEN /\ IsBody(Top.lines, Top.i, stack'[Len(stack)].i)
                   /\ stack'[Len(stack)].i <= Top.end
              ELSE /\ IsBody(Top.lines, Top.i, stack'[Len(stack)].be)
                   /\ stack'[Len(stack')].i = Top.i + 1 ]_vars
    /\ [] ( \A n \in DOMAIN functions :
              \A k \in 1..Len(functions[n].bodyLines) : functions[n].bodyLines[k].ind >= 1 )

\* a loop body inside a branch body that ends before the end of the program:
\* the inner body ends where the outer one does
C18_Witness ==
    /\ Len(stack) = 3
    /\ stack[1].pc = "if"
    /\ stack[1].be < Len(prog)
    /\ stack[2].pc = "repeat"
    /\ stack[2].be = stack[2].end
    /\ stack[2].be - stack[2].i > 2
    /\ Top.i > stack[2].i + 1

NoWhileNoCall == \A k \in 1..Len(prog) : prog[k].kind \notin {"while", "call"}

\* a while whose condition holds at the start and whose body changes nothing
SpinsForever == \E v \in Values : v > 5 /\ prog = WhilePlain(v)

(* C19: a program without while and without call ends, resolved or rejected:
   no step moves the index of an invocation backwards, each dispatch either
   throws, or advances the index, or starts the body of a block, and a repeat
   counts its iterations up to its count. Conversely a while statement whose
   condition is true starts its body again each time the body has completed,
   so a loop whose condition stays true never ends. *)
C19_TerminatesWithoutWhile ==
    /\ NoWhileNoCall ~> Finished
    /\ [][ \A j \in 1..Len(stack) :
              j <= Len(stack')
              => /\ stack'[j].i >= stack[j].i
                 /\ (stack[j].pc = "repeat" /\ stack'[j].pc = "repeat")
                    => stack'[j].c >= stack[j].c ]_vars
    /\ [][ ( Running /\ Top.pc = "run" /\ Top.i < Top.end )
           => \/ pending'.k = "throw"
              \/ /\ Len(stack') = Len(stack)
                 /\ stack'[Len(stack)].i > Top.i
              \/ /\ Len(stack') = Len(stack) + 1
                 /\ stack'[Len(stack)].pc # "run"
                 /\ stack'[Len(stack)].i = Top.i ]_vars
    /\ [][ ( Returned("repeat") /\ pending.t = "array" )
           => stack'[Len(stack)].c = Top.c + 1 ]_vars
    /\ [] ( \A j \in 1..Len(stack) :
              stack[j].pc = "repeat" => stack[j].c <= stack[j].lines[stack[j].i + 1].count )
    /\ [][ ( /\ Running /\ Top.pc = "while"
             /\ EvalExpression(envs, Top.env, Top.lines[Top.i + 1].expr).ok
             /\ Truthy(EvalExpression(envs, Top.env, Top.lines[Top.i + 1].expr).val) )
           => /\ Len(stack') = Len(stack) + 1
              /\ stack'[Len(stack')].i = Top.i + 1
              /\ status' = "running" ]_vars
    /\ [] ( SpinsForever => status = "running" )

\* a program with nested repeat loops and no while or call has ended
C19_Witness ==
    /\ NoWhileNoCall
    /\ Finished
    /\ \E k \in 1..Len(prog) : prog[k].kind = "repeat" /\ nexec[k] > 1

\* the loop that never ends has started its body as often as the model follows it
C19_WitnessSpin ==
    /\ SpinsForever
    /\ iters = MaxWhileIters
    /\ Len(said) = MaxWhileIters

(* C20: an assignment whose target is a constant of the current scope
   changes no binding in any environment. *)
C20_ConstTargetChangesNothing ==
    [][ ( /\ Dispatch("assign")
          /\ Cur.name \in DOMAIN envs[Top.env].consts )
        => envs' = envs ]_vars

====
